---------------------------- MODULE Spec2Model ----------------------------
(***************************************************************************)
(* A model of lupyne's restful json clients (src/lupyne/client.py):        *)
(* Resources, the mapping of hosts to persistent resources with unicast    *)
(* and broadcast, and Shards, the mapping of keys to host clusters with    *)
(* multicast.  Callers are threads; every access to an idle list is one    *)
(* step (list.pop and list.append are single interpreter operations), and  *)
(* the servers answer the requests in any order.                           *)
(***************************************************************************)
EXTENDS Integers, Sequences, FiniteSets, TLC

\* ------------------------------------------------------------- bounds
NHosts == 2
MaxConns == 3
MaxHostList == 2
NKeys == 2
MaxKeys == 2
MaxCoverKeys == 3
\* The interpreter's limit on nested calls, counted in calls of unicast.
RecursionLimit == 3

Hosts == 1..NHosts
\* A Resource object: the host it connects to and its number among that host's.
ConnIds == (Hosts \cup {1, 2, 3}) \X (1..MaxConns)
NoId == <<>>
Keys == 1..NKeys

\* The threads that call the client, and the one thread of sequential use.
Callers == {1, 2}
Solo == {1}

\* ---------------------------------------------------------- constants
OK == 200
NOT_FOUND == 404
REQUEST_TIMEOUT == 408
MULTIPLE_CHOICES == 300
\* The limit the tests construct Resources and Shards with.
limit == 1

\* The statuses a server answers with: a success, the request timeout and
\* another non-2xx status.
Statuses == {OK, NOT_FOUND, REQUEST_TIMEOUT}

VARIABLES
    pool,       \* Resources (a dict): host -> list of idle resources
    conn,       \* every Resource object: its host, its state, the status read
    shards,     \* Shards (a dict): key -> set of hosts
    frame,      \* every caller's position and local variables
    watch,      \* whether the calls are recorded for the properties
    down,       \* the hosts that cannot be reached: no connection, no answer
    peak,       \* host -> the most resources of it held at one time so far
    resp,       \* a completed Response and what evaluating it gave
    serves      \* host -> the status its server's state gives the request

vars == <<pool, conn, shards, frame, watch, down, peak, resp, serves>>

\* ------------------------------------------------------------ helpers
Range(s) == {s[i] : i \in DOMAIN s}

\* The sequences over S of length at most n.
SeqsUpTo(S, n) == UNION {[1..k -> S] : k \in 0..n}

\* The orders in which the members of a set (a dict's keys) can be iterated.
Perms(S) == {s \in [1..Cardinality(S) -> S] : Range(s) = S}

\* dict: d[k] = v, and d without k.
Put(d, k, v) == (k :> v) @@ d
Del(d, k) == [x \in DOMAIN d \ {k} |-> d[x]]

\* A Resource object that does not exist (any more).
NoConn == [st |-> "free", status |-> 0]

\* The calls that broadcast, and those that unicast.
Broadcasts == {"Resources.broadcast", "Shards.broadcast", "Shards.multicast"}
Unicasts == {"Resources.unicast", "Shards.unicast"}

\* A caller outside any call.  args, before, sent, timeouts, failed and partial
\* record the call for the properties when watch is set: the hosts argument,
\* the idle counts when the call began, the hosts a request went to, whether a
\* response was a timeout, whether the transport failed, and whether a host
\* had answered before it failed.  live says that hosts is the Resources dict
\* itself (line 86: tuple(hosts) or self) and not a tuple of the caller's, and
\* depth counts the calls of unicast nested in the first one (line 92).  lost
\* records, over the caller's calls, the unreachable hosts that a failed
\* broadcast of the caller had sent to (host is then the host the transport
\* failed on), and prev, where the state of the servers
\* is kept, the hosts argument and the response of the caller's last unicast
\* that returned.
IdleFrame ==
    [pc |-> "idle", op |-> "none", key |-> 0, keys |-> <<>>, args |-> <<>>,
     before |-> <<>>, hosts |-> <<>>, live |-> FALSE, depth |-> 0, lost |-> {}, prev |-> <<>>,
     host |-> 0, resource |-> NoId,
     idx |-> 0, resources |-> <<>>, responses |-> <<>>, todo |-> <<>>,
     result |-> <<>>, err |-> "none", sent |-> {}, timeouts |-> FALSE,
     failed |-> FALSE, partial |-> FALSE]

\* The resources a caller holds: checked out and not yet put back or dropped.
Held(c) ==
    (IF frame[c].resource # NoId THEN {frame[c].resource} ELSE {})
        \cup Range(frame[c].resources)

\* The resources of host h that callers hold, and their number.
HeldOf(h) == {id \in UNION {Held(c) : c \in Callers} : id[1] = h}
HeldCount(h) == Cardinality(HeldOf(h))

\* The record of the most resources held at one time, for the hosts it is kept
\* for, after a step of a caller.
Track ==
    peak' = [h \in DOMAIN peak |->
                IF HeldCount(h)' > peak[h] THEN HeldCount(h)' ELSE peak[h]]

\* The resources in some idle list.
Pooled == UNION {Range(pool[h]) : h \in DOMAIN pool}

\* Resource(host): a new object, none of the existing ones.
NewConn(h) == CHOOSE id \in {h} \X (1..MaxConns) :
    /\ conn[id].st = "free"
    /\ \A k \in 1..MaxConns : conn[<<h, k>>].st = "free" => id[2] <= k

CanCreate(h) == \E k \in 1..MaxConns : conn[<<h, k>>].st = "free"

\* self[host].pop(): the list without its last element.
ListPopKeeps(lst) == lst
ListPop(lst) == SubSeq(lst, 1, Len(lst) - 1)

\* self[host].append(resource)
ListAppend(lst, r) == Append(lst, r)

\* Resources.pop(host): the resource returned, the idle lists and the objects
\* after it.
PopResource(h) == IF pool[h] # <<>> THEN pool[h][Len(pool[h])] ELSE NewConn(h)
PopPoolKeeps(h) == pool
PopPool(h) == IF pool[h] # <<>> THEN [pool EXCEPT ![h] = ListPop(@)] ELSE pool
PopGuard(h) == pool[h] # <<>> \/ CanCreate(h)

\* Resources.push(host, resource)
PushPoolDrops(p, h, r) == p
PushPool(p, h, r) == [p EXCEPT ![h] = ListAppend(@, r)]


\* The idle lists after getresponse raised on resource r of host h: the
\* exception passes the push of line 93 or 107, the lists stay as they are.
UnwindPushes(p, h, r) == PushPool(p, h, r)
Unwind(p, h, r) == p

\* The objects after the resources in S lost their last reference.
Release(cn, S) == [id \in ConnIds |-> IF id \in S THEN NoConn ELSE cn[id]]

\* resource.request(method, path, body) went out on resource id to host h.
Sent(cn, id) == [cn EXCEPT ![id] = [st |-> "sent", status |-> 0]]

SetFrame(c, f) == [frame EXCEPT ![c] = f]

\* An exception leaves the call: no try statement catches it, the frame and the
\* resources it holds are gone, nothing is returned.
RaiseSwallowed(c, e) ==
    [frame[c] EXCEPT !.pc = "done", !.resource = NoId, !.idx = 0,
                     !.resources = <<>>, !.todo = <<>>,
                     !.result = <<>>, !.responses = <<>>]
Raise(c, e) ==
    [frame[c] EXCEPT !.pc = "raised", !.err = e, !.resource = NoId, !.idx = 0,
                     !.resources = <<>>, !.responses = <<>>, !.todo = <<>>,
                     !.result = <<>>,
                     !.partial = watch /\ \E h \in DOMAIN frame[c].responses :
                         frame[c].responses[h].status # REQUEST_TIMEOUT]

\* hosts = tuple(hosts) or self: the caller's hosts, or every host of Resources
\* in the dict's order.
ResolveAll(hs) == Perms(DOMAIN pool)
Resolve(hs) == IF hs # <<>> THEN {hs} ELSE Perms(DOMAIN pool)

\* A call begins: what it is, its hosts argument and the idle counts it finds.
Begin(c, name, hs) ==
    IF watch
    THEN [IdleFrame EXCEPT !.op = name, !.args = hs, !.live = (hs = <<>>),
                           !.lost = frame[c].lost, !.prev = frame[c].prev,
                           !.before = [h \in DOMAIN pool |-> Len(pool[h])]]
    ELSE [IdleFrame EXCEPT !.op = name, !.live = (hs = <<>>)]

\* The hosts a call iterates: its tuple, or the keys the dict has now, in the
\* dict's order (hosts are only ever deleted from it).
InPool(h) == h \in DOMAIN pool
LiveHostsOthers(f) ==
    LET Other(h) == h # f.host IN SelectSeq(f.hosts, Other)
LiveHosts(f) == IF f.live THEN SelectSeq(f.hosts, InPool) ELSE f.hosts

\* del resources[host]: the host and its idle list leave the dict.
Remove(h) ==
    /\ h \in DOMAIN pool
    /\ pool' = Del(pool, h)
    /\ conn' = Release(conn, Range(pool[h]))
    /\ UNCHANGED <<shards, frame, watch, down, peak, resp, serves>>

\* What resource.getresponse() gives: a response with a status, or a transport
\* failure (socket.error, httplib.BadStatusLine).
Outcomes ==
    {[fail |-> TRUE, status |-> 0, err |-> "socket.error"]} \cup
    {[fail |-> FALSE, status |-> s, err |-> "none"] : s \in Statuses}

\* getresponse() on a socket with a deadline that passed: recv raises
\* socket.timeout.
TimedOut == [fail |-> TRUE, status |-> 0, err |-> "socket.timeout"]

\* The response read from resource id.
ResponseOf(id, out) == [from |-> id[1], status |-> out.status]

\* The answer to the request outstanding on resource id has arrived before
\* getresponse is called, or arrives while getresponse blocks.
Arrived(id, out) ==
    \/ conn[id].st = "ready" /\ out = [fail |-> FALSE, status |-> conn[id].status,
                                        err |-> "none"]
    \/ conn[id].st = "fail" /\ out = [fail |-> TRUE, status |-> 0, err |-> "socket.error"]
    \/ conn[id].st = "expired" /\ out = TimedOut
Arrives(id, out) == conn[id].st = "sent" /\ out \in Outcomes

\* ------------------------------------------------------------ Response
\* What a response can be: its status and reason, its body after begin read
\* it, and its content-type header.
EvalStatuses == {100, 199, OK, 204, 299, MULTIPLE_CHOICES, NOT_FOUND, REQUEST_TIMEOUT, 500}
EvalReasons == {"reason"}
EvalBodies == {"", "a", "7", "null", "\"a\""}
EvalTypes == {"text/x-json", "text/html"}

\* No response, and nothing evaluated.
NoValue == [kind |-> "none", status |-> 0, reason |-> "", text |-> ""]
NoResp == [status |-> 0, reason |-> "", body |-> "", ctype |-> "",
           out |-> "none", value |-> NoValue]

\* json.loads(text): the value of a JSON text, or ValueError.
JsonValid(text) == text \in {"7", "null", "\"a\""}
JsonLoads(text) ==
    CASE text = "7" -> [NoValue EXCEPT !.kind = "int", !.text = "7"]
      [] text = "null" -> [NoValue EXCEPT !.kind = "None"]
      [] text = "\"a\"" -> [NoValue EXCEPT !.kind = "str", !.text = "a"]

\* Line 34: not httplib.OK <= self.status < httplib.MULTIPLE_CHOICES.
StatusBadNever(status) == FALSE
StatusBad(status) == ~(OK <= status /\ status < MULTIPLE_CHOICES)

\* Response.__call__, lines 34-38: what it raises or returns.
Evaluate(r) ==
    IF StatusBad(r.status)
    THEN [r EXCEPT !.out = "HTTPException",
                   !.value = [kind |-> "args", status |-> r.status,
                              reason |-> r.reason, text |-> r.body]]
    ELSE IF r.body # "" /\ r.ctype = "text/x-json"
    THEN IF JsonValid(r.body)
         THEN [r EXCEPT !.out = "returned", !.value = JsonLoads(r.body)]
         ELSE [r EXCEPT !.out = "ValueError"]
    ELSE [r EXCEPT !.out = "returned",
                   !.value = [NoValue EXCEPT !.kind = "str", !.text = r.body]]

\* Response.begin: a response is complete.
Receive(status, reason, body, ctype) ==
    /\ resp' = [NoResp EXCEPT !.status = status, !.reason = reason,
                              !.body = body, !.ctype = ctype]
    /\ UNCHANGED <<pool, conn, shards, frame, watch, down, peak, serves>>

\* response(): the response is evaluated.
Call ==
    /\ resp.status # 0 /\ resp.out = "none"
    /\ resp' = Evaluate(resp)
    /\ UNCHANGED <<pool, conn, shards, frame, watch, down, peak, serves>>

\* ------------------------------------------------------------- servers
\* The statuses host h can answer the request with: where the state of its
\* server is kept, what that state gives, or the request timeout.
Serves(h, s) == h \in DOMAIN serves => s \in {serves[h], REQUEST_TIMEOUT}

\* The host of a resource with a request outstanding answers it with some
\* status, or the transport fails.
Answer(id, s) ==
    /\ conn[id].st = "sent"
    /\ id[1] \notin down
    /\ Serves(id[1], s)
    /\ conn' = [conn EXCEPT ![id].st = "ready", ![id].status = s]
    /\ UNCHANGED <<pool, shards, frame, watch, down, peak, resp, serves>>

Fail(id) ==
    /\ conn[id].st = "sent"
    /\ conn' = [conn EXCEPT ![id].st = "fail"]
    /\ UNCHANGED <<pool, shards, frame, watch, down, peak, resp, serves>>

\* No answer comes before the deadline of the socket of resource id.
Expire(id) ==
    /\ conn[id].st = "sent"
    /\ conn' = [conn EXCEPT ![id].st = "expired"]
    /\ UNCHANGED <<pool, shards, frame, watch, down, peak, resp, serves>>

\* ------------------------------------------------------- pop and push
\* The objects after Resources.pop returned resource id: one just made by
\* Resource(host) exists and has no socket yet (httplib connects when the first
\* request is sent).
CheckedConnects(cn, id) == [cn EXCEPT ![id] = [st |-> "sent", status |-> 0]]
Checked(cn, id) == [cn EXCEPT ![id] = [st |-> "idle", status |-> 0]]

\* A caller checks a resource out with Resources.pop and holds it.
RawPop(c, h) ==
    /\ frame[c].pc = "idle"
    /\ h \in DOMAIN pool
    /\ PopGuard(h)
    /\ LET id == PopResource(h) IN
        /\ pool' = PopPool(h)
        /\ conn' = Checked(conn, id)
        /\ frame' = SetFrame(c, [IdleFrame EXCEPT !.pc = "holding", !.op = "pop",
                                                  !.host = h, !.resource = id])
    /\ Track
    /\ UNCHANGED <<shards, watch, down, resp, serves>>

\* The caller puts the resource it holds back with Resources.push.
RawPush(c) ==
    /\ frame[c].pc = "holding"
    /\ IF frame[c].host \in DOMAIN pool
       THEN /\ pool' = PushPool(pool, frame[c].host, frame[c].resource)
            /\ frame' = SetFrame(c, IdleFrame)
            /\ conn' = conn
       ELSE /\ pool' = pool
            /\ frame' = SetFrame(c, Raise(c, "KeyError"))
            /\ conn' = Release(conn, Held(c))
    /\ Track
    /\ UNCHANGED <<shards, watch, down, resp, serves>>

\* Line 82, after the pop of line 81: resource.request(method, path, body)
\* connects if it must and sends on the resource the caller holds.
HeldSend(c) ==
    /\ frame[c].pc = "holding"
    /\ LET id == frame[c].resource IN
        \/ /\ id[1] \notin down
           /\ conn' = Sent(conn, id)
           /\ frame' = SetFrame(c, [frame[c] EXCEPT !.pc = "waiting"])
        \/ /\ conn' = Release(conn, {id})
           /\ frame' = SetFrame(c, Raise(c, "socket.error"))
    /\ Track
    /\ UNCHANGED <<pool, shards, watch, down, resp, serves>>

\* resource.getresponse() on the resource the caller holds: the response is
\* read and the caller still holds the resource, or the read raises.
HeldRecv(c, out) ==
    /\ frame[c].pc = "waiting"
    /\ LET id == frame[c].resource IN
        IF out.fail
        THEN /\ conn' = Release(conn, {id})
             /\ frame' = SetFrame(c, Raise(c, out.err))
        ELSE /\ conn' = [conn EXCEPT ![id].st = "idle", ![id].status = 0]
             /\ frame' = SetFrame(c, [frame[c] EXCEPT !.pc = "holding",
                                                      !.result = <<ResponseOf(id, out)>>])
    /\ Track
    /\ UNCHANGED <<pool, shards, watch, down, resp, serves>>

\* ------------------------------------------------------------ unicast
\* list(candidates) or tuple(hosts): the hosts random.choice draws from.
Candidates(hs) == {h \in Range(hs) : Len(pool[h]) > 0}
ChoicesAny(hs) == Range(hs)
Choices(hs) == IF Candidates(hs) # {} THEN Candidates(hs) ELSE Range(hs)

StartUnicast(c, hs) ==
    /\ frame[c].pc = "idle"
    /\ \E order \in Resolve(hs) :
        frame' = SetFrame(c, [Begin(c, "Resources.unicast", hs) EXCEPT
                                  !.pc = "choose", !.hosts = order])
    /\ Track
    /\ UNCHANGED <<pool, conn, shards, watch, down, resp, serves>>

\* Lines 87-88: the choice of the host.
UChoose(c) ==
    /\ frame[c].pc = "choose"
    /\ LET hs == LiveHosts(frame[c]) IN
        IF \E h \in Range(hs) : h \notin DOMAIN pool
        THEN frame' = SetFrame(c, Raise(c, "KeyError"))
        ELSE IF Choices(hs) = {}
        THEN frame' = SetFrame(c, Raise(c, "IndexError"))
        ELSE \E h \in Choices(hs) :
            frame' = SetFrame(c, [frame[c] EXCEPT !.pc = "request", !.host = h])
    /\ Track
    /\ UNCHANGED <<pool, conn, shards, watch, down, resp, serves>>

\* Line 89: self.request(host, ...) pops a resource and sends the request.
URequest(c) ==
    /\ frame[c].pc = "request"
    /\ LET h == frame[c].host IN
        IF h \notin DOMAIN pool
        THEN /\ frame' = SetFrame(c, Raise(c, "KeyError"))
             /\ UNCHANGED <<pool, conn>>
        ELSE LET id == PopResource(h) IN
            /\ PopGuard(h)
            /\ pool' = PopPool(h)
            /\ \/ /\ h \notin down
                  /\ conn' = Sent(conn, id)
                  /\ frame' = SetFrame(c, [frame[c] EXCEPT !.pc = "read", !.resource = id,
                                                           !.sent = IF watch THEN @ \cup {h} ELSE @])
               \/ /\ conn' = Release(conn, {id})
                  /\ frame' = SetFrame(c, [Raise(c, "socket.error") EXCEPT
                                               !.sent = IF watch THEN @ \cup {h} ELSE @, !.failed = watch])
    /\ Track
    /\ UNCHANGED <<shards, watch, down, resp, serves>>

\* Lines 91 and 104: response.status == httplib.REQUEST_TIMEOUT.
IsTimeoutNever(status) == FALSE
IsNotOK(status) == status # OK
IsTimeout(status) == status = REQUEST_TIMEOUT

\* Lines 90-94: the response is read; a timeout calls unicast again, one call
\* deeper, which the interpreter refuses with RuntimeError at its recursion
\* limit; anything else puts the resource back and is returned.
URead(c, out) ==
    /\ frame[c].pc = "read"
    /\ LET id == frame[c].resource IN
        IF out.fail
        THEN /\ conn' = Release(conn, {id})
             /\ frame' = SetFrame(c, [Raise(c, out.err) EXCEPT !.failed = watch])
             /\ pool' = Unwind(pool, frame[c].host, id)
        ELSE IF IsTimeout(out.status) /\ frame[c].depth + 1 >= RecursionLimit
        THEN /\ conn' = Release(conn, {id})
             /\ frame' = SetFrame(c, [Raise(c, "RuntimeError") EXCEPT !.timeouts = watch])
             /\ pool' = pool
        ELSE IF IsTimeout(out.status)
        THEN /\ conn' = Release(conn, {id})
             /\ frame' = SetFrame(c, [frame[c] EXCEPT !.pc = "choose", !.resource = NoId,
                                                      !.host = 0, !.timeouts = watch,
                                                      !.depth = @ + 1,
                                                      !.hosts = LiveHosts(frame[c]),
                                                      !.live = (LiveHosts(frame[c]) = <<>>)])
             /\ pool' = pool
        ELSE IF frame[c].host \notin DOMAIN pool
        THEN /\ conn' = Release(conn, {id})
             /\ frame' = SetFrame(c, Raise(c, "KeyError"))
             /\ pool' = pool
        ELSE /\ pool' = PushPool(pool, frame[c].host, id)
             /\ conn' = [conn EXCEPT ![id].st = "idle", ![id].status = 0]
             /\ frame' = SetFrame(c, [frame[c] EXCEPT !.pc = "done", !.resource = NoId,
                                                      !.result = <<ResponseOf(id, out)>>])
    /\ Track
    /\ UNCHANGED <<shards, watch, down, resp, serves>>

\* ---------------------------------------------------------- broadcast
\* Line 99 builds the whole dict of resources before the loop of line 100.
SendsDoneEarly(hs, i) == i > 1 \/ i > Len(hs)
SendsDone(hs, i) == i > Len(hs)

StartBroadcast(c, hs) ==
    /\ frame[c].pc = "idle"
    /\ \E order \in Resolve(hs) :
        frame' = SetFrame(c, [Begin(c, "Resources.broadcast", hs) EXCEPT
            !.pc = IF SendsDone(order, 1) THEN "loop" ELSE "send",
            !.hosts = order, !.idx = 1])
    /\ Track
    /\ UNCHANGED <<pool, conn, shards, watch, down, resp, serves>>

\* One host of line 99: resources[host] = self.request(host, ...).
BSend(c) ==
    /\ frame[c].pc = "send"
    /\ LET f == frame[c]
           h == f.hosts[f.idx] IN
        IF f.live /\ DOMAIN pool # Range(f.hosts)
        THEN /\ frame' = SetFrame(c, Raise(c, "RuntimeError"))
             /\ conn' = Release(conn, Held(c))
             /\ pool' = pool
        ELSE IF h \notin DOMAIN pool
        THEN /\ frame' = SetFrame(c, Raise(c, "KeyError"))
             /\ conn' = Release(conn, Held(c))
             /\ pool' = pool
        ELSE LET id == PopResource(h) IN
            /\ PopGuard(h)
            /\ pool' = PopPool(h)
            /\ \/ /\ h \notin down
                  /\ conn' = Release(Sent(conn, id),
                                     IF h \in DOMAIN f.resources
                                     THEN {f.resources[h]} \ {id} ELSE {})
                  /\ frame' = SetFrame(c, [f EXCEPT
                        !.resources = Put(@, h, id), !.idx = @ + 1,
                        !.sent = IF watch THEN @ \cup {h} ELSE @,
                        !.pc = IF SendsDone(f.hosts, f.idx + 1) THEN "loop" ELSE "send"])
               \/ /\ conn' = Release(conn, Held(c) \cup {id})
                  /\ frame' = SetFrame(c, [Raise(c, "socket.error") EXCEPT
                        !.sent = IF watch THEN @ \cup {h} ELSE @, !.failed = watch,
                        !.host = IF watch THEN h ELSE @])
    /\ Track
    /\ UNCHANGED <<shards, watch, down, resp, serves>>

\* Line 108: map(responses.__getitem__, hosts).
CollectByHost(responses, hs) ==
    LET below(h) == Cardinality({g \in DOMAIN responses : g <= h}) IN
    [i \in 1..Cardinality(DOMAIN responses) |->
        responses[CHOOSE h \in DOMAIN responses : below(h) = i]]
Collect(responses, hs) == [i \in 1..Len(hs) |-> responses[hs[i]]]

\* Lines 100-101: while resources: for host in list(resources).
BLoop(c) ==
    /\ frame[c].pc = "loop"
    /\ LET f == frame[c] IN
        IF DOMAIN f.resources = {}
        THEN frame' = SetFrame(c, [f EXCEPT !.pc = "done", !.idx = 0,
                                            !.responses = <<>>,
                                            !.result = Collect(f.responses, LiveHosts(f))])
        ELSE \E order \in Perms(DOMAIN f.resources) :
            frame' = SetFrame(c, [f EXCEPT !.pc = "recv", !.todo = order])
    /\ Track
    /\ UNCHANGED <<pool, conn, shards, watch, down, resp, serves>>

\* Line 105: resources[host] = self.request(host, ...).
RequeueDrops(resources, h, new) == Del(resources, h)
Requeue(resources, h, new) == Put(resources, h, new)

\* Lines 102-107: the response of one host is read; a timeout sends the
\* request again, anything else puts the resource back.
BRecv(c, out) ==
    /\ frame[c].pc = "recv"
    /\ LET f == frame[c]
           h == Head(f.todo)
           id == f.resources[h]
           rest == Tail(f.todo)
           next == IF rest = <<>> THEN "loop" ELSE "recv" IN
        IF out.fail
        THEN /\ conn' = Release(conn, Held(c))
             /\ frame' = SetFrame(c, [Raise(c, out.err) EXCEPT
                   !.failed = watch, !.host = IF watch THEN h ELSE @])
             /\ pool' = Unwind(pool, h, id)
        ELSE IF h \notin DOMAIN pool
        THEN /\ conn' = Release(conn, Held(c))
             /\ frame' = SetFrame(c, [Raise(c, "KeyError") EXCEPT
                   !.timeouts = IF IsTimeout(out.status) THEN watch ELSE @])
             /\ pool' = pool
        ELSE IF IsTimeout(out.status)
        THEN /\ PopGuard(h)
             /\ pool' = PopPool(h)
             /\ LET new == PopResource(h) IN
                 \/ /\ h \notin down
                    /\ conn' = Release(Sent(conn, new), {id})
                    /\ frame' = SetFrame(c, [f EXCEPT
                          !.responses = Put(@, h, ResponseOf(id, out)),
                          !.resources = Requeue(@, h, new),
                          !.todo = rest, !.pc = next, !.timeouts = watch])
                 \/ /\ conn' = Release(conn, Held(c) \cup {new})
                    /\ frame' = SetFrame(c, [Raise(c, "socket.error") EXCEPT
                          !.failed = watch, !.timeouts = watch,
                          !.host = IF watch THEN h ELSE @])
        ELSE /\ pool' = PushPool(pool, h, id)
             /\ conn' = [conn EXCEPT ![id].st = "idle", ![id].status = 0]
             /\ frame' = SetFrame(c, [f EXCEPT
                   !.responses = Put(@, h, ResponseOf(id, out)),
                   !.resources = Del(@, h),
                   !.todo = rest, !.pc = next])
    /\ Track
    /\ UNCHANGED <<shards, watch, down, resp, serves>>

\* The call is over: its result or its exception went to the caller.
Return(c) ==
    /\ frame[c].pc \in {"done", "raised"}
    /\ frame' = SetFrame(c, [IdleFrame EXCEPT
            !.lost = IF watch /\ frame[c].op \in Broadcasts /\ frame[c].failed
                     THEN frame[c].lost \cup (frame[c].sent \cap down)
                     ELSE frame[c].lost,
            !.prev = IF /\ watch /\ serves # <<>>
                        /\ frame[c].op \in Unicasts /\ frame[c].pc = "done"
                     THEN [args |-> frame[c].args, result |-> frame[c].result[1]]
                     ELSE frame[c].prev])
    /\ Track
    /\ UNCHANGED <<pool, conn, shards, watch, down, resp, serves>>

\* ------------------------------------------------------------- Shards
\* Shards.unicast(key, ...): self.resources.unicast(method, path, body, self[key]).
\* The shard map after the sets of hosts of the keys ks were handed to
\* Resources (self[key] on lines 118 and 121) or to itertools.product (line
\* 126): tuple(hosts), on lines 86 and 97, and frozenset copy them, no set
\* and no entry of the map is changed.
PassedConsumed(m, ks) == [k \in DOMAIN m |-> IF k \in ks THEN {} ELSE m[k]]
Passed(m, ks) == m

ShardsUnicast(c, key) ==
    /\ frame[c].pc = "idle"
    /\ key \in DOMAIN shards
    /\ \E hs \in Perms(shards[key]) : \E order \in Resolve(hs) :
        frame' = SetFrame(c, [Begin(c, "Shards.unicast", hs) EXCEPT
                                  !.pc = "choose", !.key = key, !.hosts = order])
    /\ shards' = Passed(shards, {key})
    /\ Track
    /\ UNCHANGED <<pool, conn, watch, down, resp, serves>>

\* Shards.broadcast(key, ...): self.resources.broadcast(method, path, body, self[key]).
ShardsBroadcast(c, key) ==
    /\ frame[c].pc = "idle"
    /\ key \in DOMAIN shards
    /\ \E hs \in Perms(shards[key]) : \E order \in Resolve(hs) :
        frame' = SetFrame(c, [Begin(c, "Shards.broadcast", hs) EXCEPT
            !.pc = IF SendsDone(order, 1) THEN "loop" ELSE "send",
            !.key = key, !.hosts = order, !.idx = 1])
    /\ shards' = Passed(shards, {key})
    /\ Track
    /\ UNCHANGED <<pool, conn, watch, down, resp, serves>>

\* itertools.product(*map(self.__getitem__, keys)): one host for each key.
ProductSkipsEmpty(keys) ==
    {t \in [1..Len(keys) -> DOMAIN pool] :
        \A i \in 1..Len(keys) : shards[keys[i]] # {} => t[i] \in shards[keys[i]]}
ProductAnyHost(keys) == [1..Len(keys) -> DOMAIN pool]
Product(keys) ==
    {t \in [1..Len(keys) -> UNION {shards[k] : k \in DOMAIN shards}] :
        \A i \in 1..Len(keys) : t[i] \in shards[keys[i]]}

\* Line 126: the distinct sets of hosts of the product.
HostSetsFirstKey(keys) == {{t[i] : i \in DOMAIN t \cap {1}} : t \in Product(keys)}
HostSets(keys) == {Range(t) : t \in Product(keys)}

\* Line 127: size = min(map(len, shards)).
MinSizeLargest(sets) ==
    CHOOSE n \in {Cardinality(x) : x \in sets} :
        \A x \in sets : n >= Cardinality(x)
MinSize(sets) ==
    CHOOSE n \in {Cardinality(x) : x \in sets} :
        \A x \in sets : n <= Cardinality(x)

\* Line 128: the sets of hosts no larger than the smallest.
SmallestAll(sets) == sets
Smallest(sets) == {x \in sets : Cardinality(x) <= MinSize(sets)}

\* Line 131: min(len(self.resources[host]) for host in hosts).
Weight(hs) ==
    CHOOSE n \in {Len(pool[h]) : h \in hs} : \A h \in hs : n <= Len(pool[h])

\* Lines 129-132: the sets of hosts random.choice draws from.
CoversUnion(keys) == {UNION {shards[keys[i]] : i \in DOMAIN keys}}
Covers(keys) ==
    LET small == Smallest(HostSets(keys))
        candidates == {x \in small : Weight(x) > 0}
    IN IF candidates # {} THEN candidates ELSE small

\* Shards.multicast(keys, ...): lines 126-133.  min() of an empty sequence
\* raises ValueError: on line 127 when a key has no host, on line 131 when
\* keys is empty.
Multicast(c, keys) ==
    /\ frame[c].pc = "idle"
    /\ Range(keys) \subseteq DOMAIN shards
    /\ LET f == [Begin(c, "Shards.multicast", <<>>) EXCEPT !.keys = keys, !.live = FALSE] IN
        IF HostSets(keys) = {} \/ {} \in Smallest(HostSets(keys))
        THEN frame' = SetFrame(c, [f EXCEPT !.pc = "raised", !.err = "ValueError"])
        ELSE \E hs \in Covers(keys) : \E t \in Perms(hs) : \E order \in Resolve(t) :
            frame' = SetFrame(c, [f EXCEPT
                !.pc = IF SendsDone(order, 1) THEN "loop" ELSE "send",
                !.args = IF watch THEN t ELSE <<>>, !.hosts = order, !.idx = 1])
    /\ shards' = Passed(shards, Range(keys))
    /\ Track
    /\ UNCHANGED <<pool, conn, watch, down, resp, serves>>

\* ------------------------------------------------------ specification
\* Sequential use: Resources(hosts) has an empty idle list for every host, one
\* thread calls it, and the hosts answer when they like.
Init ==
    /\ \E hs \in SUBSET Hosts : pool = [h \in hs |-> <<>>]
    /\ conn = [id \in ConnIds |-> NoConn]
    /\ shards = <<>>
    /\ frame = [c \in Callers |-> IdleFrame]
    /\ watch = TRUE
    /\ down = {}
    /\ peak = <<>>
    /\ resp = NoResp
    /\ serves = <<>>

Next ==
    \/ \E id \in ConnIds, s \in Statuses : Answer(id, s)
    \/ \E id \in ConnIds : Fail(id)
    \/ \E c \in Solo, hs \in SeqsUpTo(Hosts, MaxHostList) : StartUnicast(c, hs)
    \/ \E c \in Solo : UChoose(c)
    \/ \E c \in Solo : URequest(c)
    \/ \E c \in Solo, out \in Outcomes :
        frame[c].pc = "read" /\ Arrived(frame[c].resource, out) /\ URead(c, out)
    \/ \E c \in Solo, hs \in SeqsUpTo(Hosts, MaxHostList) : StartBroadcast(c, hs)
    \/ \E c \in Solo : BSend(c)
    \/ \E c \in Solo : BLoop(c)
    \/ \E c \in Solo, out \in Outcomes :
        /\ frame[c].pc = "recv"
        /\ Arrived(frame[c].resources[Head(frame[c].todo)], out)
        /\ BRecv(c, out)
    \/ \E c \in Solo : Return(c)

Spec == Init /\ [][Next]_vars

\* Sequential use while another thread deletes hosts from the dict.
RemoveNext ==
    \/ Next
    \/ \E h \in Hosts : Remove(h)

RemoveSpec == Init /\ [][RemoveNext]_vars

\* Sequential use with sockets that have a deadline (socket.setdefaulttimeout):
\* a read can end by socket.timeout.
DeadlineNext ==
    \/ Next
    \/ \E id \in ConnIds : Expire(id)
    \/ \E c \in Solo :
        frame[c].pc = "read" /\ Arrived(frame[c].resource, TimedOut) /\ URead(c, TimedOut)
    \/ \E c \in Solo :
        /\ frame[c].pc = "recv"
        /\ Arrived(frame[c].resources[Head(frame[c].todo)], TimedOut)
        /\ BRecv(c, TimedOut)

DeadlineSpec == Init /\ [][DeadlineNext]_vars

\* Sequential use of a Resources some of whose hosts cannot be reached: a
\* request to such a host fails in the transport.
DownInit ==
    /\ pool = [h \in Hosts |-> <<>>]
    /\ conn = [id \in ConnIds |-> NoConn]
    /\ shards = <<>>
    /\ frame = [c \in Callers |-> IdleFrame]
    /\ watch = TRUE
    /\ down \in SUBSET Hosts
    /\ peak = <<>>
    /\ resp = NoResp
    /\ serves = <<>>

DownSpec == DownInit /\ [][Next]_vars

\* Concurrent use: two threads call one Resources of two hosts, for all hosts or
\* for one, each answer arriving while its getresponse blocks.
ConcHosts == {1, 2}
ConcHostLists == {<<>>} \cup {<<h>> : h \in ConcHosts}
ConcOutcomes == {o \in Outcomes : o.status # NOT_FOUND}

ConcInit ==
    /\ pool = [h \in ConcHosts |-> <<>>]
    /\ conn = [id \in ConnIds |-> NoConn]
    /\ shards = <<>>
    /\ frame = [c \in Callers |-> IdleFrame]
    /\ watch = FALSE
    /\ down = {}
    /\ peak = <<>>
    /\ resp = NoResp
    /\ serves = <<>>

ConcNext ==
    \/ \E c \in Callers, h \in ConcHosts : RawPop(c, h)
    \/ \E c \in Callers : RawPush(c)
    \/ \E c \in Callers, hs \in ConcHostLists : StartUnicast(c, hs)
    \/ \E c \in Callers : UChoose(c)
    \/ \E c \in Callers : URequest(c)
    \/ \E c \in Callers, out \in ConcOutcomes :
        frame[c].pc = "read" /\ Arrives(frame[c].resource, out) /\ URead(c, out)
    \/ \E c \in Callers, hs \in ConcHostLists : StartBroadcast(c, hs)
    \/ \E c \in Callers : BSend(c)
    \/ \E c \in Callers : BLoop(c)
    \/ \E c \in Callers, out \in ConcOutcomes :
        /\ frame[c].pc = "recv"
        /\ Arrives(frame[c].resources[Head(frame[c].todo)], out)
        /\ BRecv(c, out)
    \/ \E c \in Callers : Return(c)

ConcSpec == ConcInit /\ [][ConcNext]_vars

\* Two threads use one Resources statement by statement: pop, request on the
\* resource held, getresponse, push.
StepNext ==
    \/ \E c \in Callers, h \in ConcHosts : RawPop(c, h)
    \/ \E c \in Callers : HeldSend(c)
    \/ \E c \in Callers, out \in ConcOutcomes :
        frame[c].pc = "waiting" /\ Arrives(frame[c].resource, out) /\ HeldRecv(c, out)
    \/ \E c \in Callers : RawPush(c)
    \/ \E c \in Callers : Return(c)

StepSpec == ConcInit /\ [][StepNext]_vars

\* Unicast calls, one after the other, with the same request to servers whose
\* state does not change: a host answers with what its state gives, or with
\* the request timeout, or the transport fails.
SameInit ==
    /\ pool = [h \in Hosts |-> <<>>]
    /\ conn = [id \in ConnIds |-> NoConn]
    /\ shards = <<>>
    /\ frame = [c \in Callers |-> IdleFrame]
    /\ watch = TRUE
    /\ down = {}
    /\ peak = <<>>
    /\ resp = NoResp
    /\ serves \in [Hosts -> Statuses \ {REQUEST_TIMEOUT}]

SameNext ==
    \/ \E id \in ConnIds, s \in Statuses : Answer(id, s)
    \/ \E id \in ConnIds : Fail(id)
    \/ \E c \in Solo, hs \in SeqsUpTo(Hosts, MaxHostList) : StartUnicast(c, hs)
    \/ \E c \in Solo : UChoose(c)
    \/ \E c \in Solo : URequest(c)
    \/ \E c \in Solo, out \in Outcomes :
        frame[c].pc = "read" /\ Arrived(frame[c].resource, out) /\ URead(c, out)
    \/ \E c \in Solo : Return(c)

SameSpec == SameInit /\ [][SameNext]_vars

\* Concurrent use of a Resources of one host, with the record of the most
\* resources held at one time.
PeakHosts == {1}

PeakInit ==
    /\ pool = [h \in PeakHosts |-> <<>>]
    /\ peak = [h \in PeakHosts |-> 0]
    /\ resp = NoResp
    /\ serves = <<>>
    /\ conn = [id \in ConnIds |-> NoConn]
    /\ shards = <<>>
    /\ frame = [c \in Callers |-> IdleFrame]
    /\ watch = FALSE
    /\ down = {}

PeakSpec == PeakInit /\ [][ConcNext]_vars

\* Responses of every kind are received and evaluated.
EvalNext ==
    \/ \E status \in EvalStatuses, reason \in EvalReasons,
          body \in EvalBodies, ctype \in EvalTypes :
            Receive(status, reason, body, ctype)
    \/ Call

EvalSpec == Init /\ [][EvalNext]_vars

\* Shards(mapping): a set of hosts for every key, and one Resources over the
\* hosts of all keys.
ShardInit ==
    /\ \E m \in [Keys -> SUBSET Hosts] :
        /\ shards = m
        /\ pool = [h \in UNION Range(m) |-> <<>>]
    /\ conn = [id \in ConnIds |-> NoConn]
    /\ frame = [c \in Callers |-> IdleFrame]
    /\ watch = TRUE
    /\ down = {}
    /\ peak = <<>>
    /\ resp = NoResp
    /\ serves = <<>>

ShardNext ==
    \/ \E id \in ConnIds, s \in Statuses : Answer(id, s)
    \/ \E id \in ConnIds : Fail(id)
    \/ \E c \in Solo, key \in Keys : ShardsUnicast(c, key)
    \/ \E c \in Solo, key \in Keys : ShardsBroadcast(c, key)
    \/ \E c \in Solo, keys \in SeqsUpTo(Keys, MaxKeys) : Multicast(c, keys)
    \/ \E c \in Solo : UChoose(c)
    \/ \E c \in Solo : URequest(c)
    \/ \E c \in Solo, out \in ConcOutcomes :
        frame[c].pc = "read" /\ Arrived(frame[c].resource, out) /\ URead(c, out)
    \/ \E c \in Solo : BSend(c)
    \/ \E c \in Solo : BLoop(c)
    \/ \E c \in Solo, out \in ConcOutcomes :
        /\ frame[c].pc = "recv"
        /\ Arrived(frame[c].resources[Head(frame[c].todo)], out)
        /\ BRecv(c, out)
    \/ \E c \in Solo : Return(c)

ShardSpec == ShardInit /\ [][ShardNext]_vars

\* Shards over three keys and three hosts: multicast chooses its hosts and
\* broadcasts to them, each host answering while getresponse blocks.
CoverHosts == {1, 2, 3}
CoverKeys == {1, 2, 3}
CoverOutcomes == {o \in Outcomes : ~o.fail /\ o.status = OK}

CoverInit ==
    /\ \E m \in [CoverKeys -> SUBSET CoverHosts] :
        /\ shards = m
        /\ pool = [h \in UNION Range(m) |-> <<>>]
    /\ conn = [id \in ConnIds |-> NoConn]
    /\ frame = [c \in Callers |-> IdleFrame]
    /\ watch = TRUE
    /\ down = {}
    /\ peak = <<>>
    /\ resp = NoResp
    /\ serves = <<>>

CoverNext ==
    \/ \E c \in Solo, keys \in SeqsUpTo(CoverKeys, MaxCoverKeys) : Multicast(c, keys)
    \/ \E c \in Solo : BSend(c)
    \/ \E c \in Solo : BLoop(c)
    \/ \E c \in Solo, out \in CoverOutcomes :
        /\ frame[c].pc = "recv"
        /\ Arrives(frame[c].resources[Head(frame[c].todo)], out)
        /\ BRecv(c, out)
    \/ \E c \in Solo : Return(c)

CoverSpec == CoverInit /\ [][CoverNext]_vars

\* Line 115: itertools.chain(*self.values()), the hosts of every key, of which
\* Resources.__init__ makes the keys of a dict.
ChainFirst(m) == IF DOMAIN m = {} THEN {} ELSE m[CHOOSE k \in DOMAIN m : \A j \in DOMAIN m : k <= j]
Chain(m) == UNION Range(m)

\* Shards(mapping), lines 113-115: mapping gives for every key its hosts, as a
\* sequence; self[key] = set(hosts), and self.resources is made.
Construct(m) ==
    /\ shards = <<>> /\ pool = <<>>
    /\ shards' = [k \in DOMAIN m |-> Range(m[k])]
    /\ pool' = [h \in Chain(shards') |-> <<>>]
    /\ UNCHANGED <<conn, frame, watch, down, peak, resp, serves>>

\* Shards is constructed, then used.
BuildInit ==
    /\ shards = <<>>
    /\ pool = <<>>
    /\ conn = [id \in ConnIds |-> NoConn]
    /\ frame = [c \in Callers |-> IdleFrame]
    /\ watch = TRUE
    /\ down = {}
    /\ peak = <<>>
    /\ resp = NoResp
    /\ serves = <<>>

BuildNext ==
    \/ \E m \in [Keys -> SeqsUpTo(Hosts, MaxHostList)] : Construct(m)
    \/ ShardNext

BuildSpec == BuildInit /\ [][BuildNext]_vars

\* Shards some of whose hosts cannot be reached.
ShardDownInit ==
    /\ \E m \in [Keys -> SUBSET Hosts] :
        /\ shards = m
        /\ pool = [h \in UNION Range(m) |-> <<>>]
    /\ conn = [id \in ConnIds |-> NoConn]
    /\ frame = [c \in Callers |-> IdleFrame]
    /\ watch = TRUE
    /\ down \in SUBSET Hosts
    /\ peak = <<>>
    /\ resp = NoResp
    /\ serves = <<>>

ShardDownSpec == ShardDownInit /\ [][ShardNext]_vars

\* A fresh Resources used by one caller for unicast over all hosts, one call
\* after the other, no request failing and no host answering with the timeout.
StickyInit ==
    /\ pool = [h \in Hosts |-> <<>>]
    /\ conn = [id \in ConnIds |-> NoConn]
    /\ shards = <<>>
    /\ frame = [c \in Callers |-> IdleFrame]
    /\ watch = TRUE
    /\ down = {}
    /\ peak = <<>>
    /\ resp = NoResp
    /\ serves \in [Hosts -> Statuses \ {REQUEST_TIMEOUT}]

StickyNext ==
    \/ \E id \in ConnIds, s \in Statuses \ {REQUEST_TIMEOUT} : Answer(id, s)
    \/ \E c \in Solo : StartUnicast(c, <<>>)
    \/ \E c \in Solo : UChoose(c)
    \/ \E c \in Solo : URequest(c) /\ frame'[c].pc # "raised"
    \/ \E c \in Solo, out \in Outcomes :
        frame[c].pc = "read" /\ Arrived(frame[c].resource, out) /\ URead(c, out)
    \/ \E c \in Solo : Return(c)

StickySpec == StickyInit /\ [][StickyNext]_vars

\* Sequential use with no transport failure, the caller's steps taken whenever
\* they can be and every host answering, after however many timeouts, with
\* another status.
LiveInit ==
    /\ pool = [h \in Hosts |-> <<>>]
    /\ conn = [id \in ConnIds |-> NoConn]
    /\ shards = <<>>
    /\ frame = [c \in Callers |-> IdleFrame]
    /\ watch = TRUE
    /\ down = {}
    /\ peak = <<>>
    /\ resp = NoResp
    /\ serves = <<>>

Steps(c) ==
    \/ UChoose(c)
    \/ URequest(c)
    \/ \E out \in Outcomes :
        frame[c].pc = "read" /\ Arrived(frame[c].resource, out) /\ URead(c, out)
    \/ BSend(c)
    \/ BLoop(c)
    \/ \E out \in Outcomes :
        /\ frame[c].pc = "recv"
        /\ Arrived(frame[c].resources[Head(frame[c].todo)], out)
        /\ BRecv(c, out)
    \/ Return(c)

Answers(h) ==
    \E k \in 1..MaxConns, s \in Statuses \ {REQUEST_TIMEOUT} : Answer(<<h, k>>, s)

LiveNext ==
    \/ \E id \in ConnIds, s \in Statuses : Answer(id, s)
    \/ \E c \in Solo, hs \in SeqsUpTo(Hosts, MaxHostList) : StartUnicast(c, hs)
    \/ \E c \in Solo, hs \in SeqsUpTo(Hosts, MaxHostList) : StartBroadcast(c, hs)
    \/ \E c \in Solo : Steps(c)

LiveSpec ==
    /\ LiveInit /\ [][LiveNext]_vars
    /\ \A c \in Solo : WF_vars(Steps(c))
    /\ WF_vars(\E id \in ConnIds, s \in Statuses : Answer(id, s))
    /\ \A h \in Hosts : SF_vars(Answers(h))

\* The model's own sanity: every resource named is an object, and Resource(host)
\* never runs out of names.
TypeOK ==
    /\ \A h \in DOMAIN pool : Range(pool[h]) \subseteq ConnIds
    /\ \A c \in Callers : Held(c) \subseteq ConnIds
    /\ \A h \in DOMAIN pool : CanCreate(h)


\* ---------------------------------------------------------- properties

\* How often resource id is in an idle list or held by a caller.
Owners(id) ==
    LET inList(h) == Cardinality({i \in DOMAIN pool[h] : pool[h][i] = id})
        RECURSIVE lists(_)
        lists(S) == IF S = {} THEN 0
                    ELSE LET h == CHOOSE x \in S : TRUE
                         IN inList(h) + lists(S \ {h})
        RECURSIVE held(_)
        held(S) == IF S = {} THEN 0
                   ELSE LET c == CHOOSE x \in S : TRUE
                        IN (IF frame[c].resource = id THEN 1 ELSE 0)
                           + Cardinality({h \in DOMAIN frame[c].resources :
                                            frame[c].resources[h] = id})
                           + held(S \ {c})
    IN lists(DOMAIN pool) + held(Callers)

\* C1: under any interleaving of concurrent unicast, broadcast, pop and push
\* calls, every resource has a single owner: it is held by one caller once, or
\* it is once in one idle list, never both and never twice.
C1_SingleOwner ==
    /\ \A id \in ConnIds : Owners(id) <= 1
    /\ \A c1, c2 \in Callers : c1 # c2 => Held(c1) \cap Held(c2) = {}
    /\ \A c \in Callers : Held(c) \cap Pooled = {}
    /\ \A id \in ConnIds : conn[id].st # "free" => Owners(id) = 1

\* Two callers hold resources of the same host while another one is idle.
C1_Witness ==
    \E c1, c2 \in Callers :
        /\ c1 # c2
        /\ \E a \in Held(c1), b \in Held(c2) : a[1] = b[1]
        /\ Pooled # {}

\* C2: a broadcast over the caller's list of n >= 1 hosts that returns gives n
\* responses, the i-th the one received from the i-th host of the list.
C2_BroadcastOrder ==
    \A c \in Callers :
        (frame[c].op = "Resources.broadcast" /\ frame[c].pc = "done"
            /\ frame[c].args # <<>>) =>
            /\ Len(frame[c].result) = Len(frame[c].args)
            /\ \A i \in 1..Len(frame[c].args) :
                frame[c].result[i].from = frame[c].args[i]

\* A broadcast over two hosts, the larger first, returned after a timeout.
C2_Witness ==
    \E c \in Callers :
        /\ frame[c].op = "Resources.broadcast" /\ frame[c].pc = "done"
        /\ Len(frame[c].args) = 2 /\ frame[c].args[1] > frame[c].args[2]
        /\ frame[c].timeouts

\* C3: in broadcast every host of the target set has a resource checked out
\* with its request sent before the first response is read, and no response is
\* read before a request went to every host.
C3_SendsBeforeReads ==
    \A c \in Callers :
        (frame[c].op \in Broadcasts
            /\ (frame[c].pc = "recv" \/ frame[c].responses # <<>>)) =>
            /\ Range(frame[c].hosts) \subseteq frame[c].sent
            /\ frame[c].responses = <<>> =>
                /\ DOMAIN frame[c].resources = Range(frame[c].hosts)
                /\ \A h \in DOMAIN frame[c].resources :
                    conn[frame[c].resources[h]].st \in {"sent", "ready", "fail"}

\* The first read of a broadcast over two distinct hosts is about to begin.
C3_Witness ==
    \E c \in Callers :
        /\ frame[c].op = "Resources.broadcast" /\ frame[c].pc = "recv"
        /\ frame[c].responses = <<>>
        /\ Cardinality(Range(frame[c].hosts)) = 2

\* C4: in broadcast a response with the timeout status makes the call send a new
\* request to the same host on another resource and wait for it (unless that
\* send fails); the host stays in the result, and every response returned is
\* not a timeout.
C4_TimeoutResent ==
    /\ [][\A c \in Callers :
            (/\ frame[c].pc = "recv"
             /\ frame'[c] # frame[c]
             /\ LET id == frame[c].resources[Head(frame[c].todo)]
                IN conn[id].st = "ready" /\ conn[id].status = REQUEST_TIMEOUT) =>
            LET h == Head(frame[c].todo)
                id == frame[c].resources[h]
            IN \/ frame'[c].pc = "raised" /\ frame'[c].failed
               \/ /\ frame'[c].pc \in {"recv", "loop"}
                  /\ h \in DOMAIN frame'[c].resources
                  /\ frame'[c].resources[h] # id
                  /\ frame'[c].resources[h][1] = h
                  /\ conn'[frame'[c].resources[h]].st = "sent"]_vars
    /\ [](\A c \in Callers :
            (frame[c].op \in Broadcasts /\ frame[c].pc = "done") =>
                /\ Len(frame[c].result) = Len(frame[c].hosts)
                /\ \A i \in 1..Len(frame[c].hosts) :
                    /\ frame[c].result[i].from = frame[c].hosts[i]
                    /\ frame[c].result[i].status # REQUEST_TIMEOUT)

\* A broadcast over two hosts returned after a timeout.
C4_Witness ==
    \E c \in Callers :
        /\ frame[c].op = "Resources.broadcast" /\ frame[c].pc = "done"
        /\ frame[c].timeouts
        /\ Cardinality(Range(frame[c].hosts)) = 2
        /\ Len(frame[c].result) = 2

\* C5: a broadcast in which the transport failed, on a send or on a read, ends
\* by raising that error and returns no response, also when another host had
\* answered.
C5_FailureAborts ==
    \A c \in Callers :
        (frame[c].op \in Broadcasts /\ frame[c].failed) =>
            /\ frame[c].pc = "raised"
            /\ frame[c].err = "socket.error"
            /\ frame[c].result = <<>>

\* A broadcast raised after a host had answered without a timeout.
C5_Witness ==
    \E c \in Callers :
        /\ frame[c].op = "Resources.broadcast" /\ frame[c].pc = "raised"
        /\ frame[c].failed /\ frame[c].partial

\* C6: unicast returns the response it read last, which is never a timeout: a
\* timeout followed by another status gives that later response.
C6_UnicastHidesTimeout ==
    /\ [][\A c \in Callers :
            (frame[c].pc = "read" /\ frame'[c].pc = "done") =>
                frame'[c].result =
                    <<[from |-> frame[c].resource[1],
                       status |-> conn[frame[c].resource].status]>>]_vars
    /\ [](\A c \in Callers :
            (frame[c].op \in Unicasts /\ frame[c].pc = "done") =>
                /\ Len(frame[c].result) = 1
                /\ frame[c].result[1].status # REQUEST_TIMEOUT)

\* A unicast returned after a timeout.
C6_Witness ==
    \E c \in Callers :
        /\ frame[c].op = "Resources.unicast" /\ frame[c].pc = "done"
        /\ frame[c].timeouts

\* The host unicast may choose by the idle counts.
C7_Allowed(c) ==
    LET hs == Range(frame[c].hosts)
        idle == {h \in hs : Len(pool[h]) >= 1}
    IN IF idle # {} THEN idle ELSE hs

C7_Chooses(c, h) == UChoose(c) /\ frame'[c].host = h

\* C7: unicast chooses a candidate with an idle resource when there is one, and
\* any candidate otherwise, never a host outside the candidates; and each of
\* these hosts can be chosen.
C7_ChoiceByIdleCount ==
    /\ [][\A c \in Callers :
            (frame[c].pc = "choose" /\ frame'[c].pc = "request") =>
                frame'[c].host \in C7_Allowed(c)]_vars
    /\ [](\A c \in Callers :
            (frame[c].pc = "choose" /\ Range(frame[c].hosts) \subseteq DOMAIN pool) =>
                \A h \in C7_Allowed(c) : ENABLED C7_Chooses(c, h))

\* A host with an idle resource was chosen while another candidate had none.
C7_Witness ==
    \E c \in Callers :
        /\ frame[c].pc = "request"
        /\ Len(pool[frame[c].host]) >= 1
        /\ \E g \in Range(frame[c].hosts) : Len(pool[g]) = 0

\* C8 as stated: a unicast that succeeds without concurrent calls leaves the
\* idle count of the chosen host as it was before the call.
C8_CountUnchanged ==
    \A c \in Callers :
        (frame[c].op = "Resources.unicast" /\ frame[c].pc = "done") =>
            Len(pool[frame[c].host]) = frame[c].before[frame[c].host]

\* C8 amended: a unicast that succeeds at its first attempt without concurrent
\* calls leaves the idle count of the chosen host as it was before the call
\* when the host had an idle resource, and at one when it had none: the
\* resource popped or created is pushed.
C8_CountAfterUnicast ==
    \A c \in Callers :
        (frame[c].op = "Resources.unicast" /\ frame[c].pc = "done"
            /\ ~frame[c].timeouts) =>
            Len(pool[frame[c].host]) =
                IF frame[c].before[frame[c].host] >= 1
                THEN frame[c].before[frame[c].host] ELSE 1

\* A unicast returned from a host that had an idle resource before the call.
C8_Witness ==
    \E c \in Callers :
        /\ frame[c].op = "Resources.unicast" /\ frame[c].pc = "done"
        /\ ~frame[c].timeouts
        /\ frame[c].before[frame[c].host] >= 1

\* C9: Shards.unicast(key) sends only to hosts of the key, and
\* Shards.broadcast(key) to exactly the hosts of the key.
C9_OnlyHostsOfKey ==
    \A c \in Callers :
        /\ frame[c].op \in {"Shards.unicast", "Shards.broadcast"} =>
            frame[c].sent \subseteq shards[frame[c].key]
        /\ (frame[c].op = "Shards.broadcast" /\ frame[c].pc = "done") =>
            frame[c].sent = shards[frame[c].key]

\* C10: the hosts multicast broadcasts to cover the keys: every key has one of
\* its hosts among them, and requests go to these hosts and no other.
C10_MulticastCovers ==
    \A c \in Callers :
        frame[c].op = "Shards.multicast" =>
            /\ frame[c].sent \subseteq Range(frame[c].hosts)
            /\ frame[c].pc \in {"send", "loop", "recv", "done"} =>
                \A i \in DOMAIN frame[c].keys :
                    shards[frame[c].keys[i]] \cap Range(frame[c].hosts) # {}
            /\ frame[c].pc = "done" =>
                /\ frame[c].sent = Range(frame[c].hosts)
                /\ \A i \in DOMAIN frame[c].keys :
                    shards[frame[c].keys[i]] \cap frame[c].sent # {}

\* A multicast over two keys with no host in common returned from two hosts.
C10_Witness ==
    \E c \in Callers :
        /\ frame[c].op = "Shards.multicast" /\ frame[c].pc = "done"
        /\ Len(frame[c].keys) = 2
        /\ shards[frame[c].keys[1]] \cap shards[frame[c].keys[2]] = {}
        /\ Cardinality(frame[c].sent) = 2

\* The hosts in S cover the keys: every key has one of its hosts in S.
CoversKeys(S, keys) == \A i \in DOMAIN keys : shards[keys[i]] \cap S # {}

\* The pc values of a call that is inside broadcast.
InBroadcast == {"send", "loop", "recv", "done"}

\* C11: the set of hosts multicast broadcasts to has minimum size: no set of
\* hosts with fewer members, among all sets of hosts, covers every key.
C11_MinimumCover ==
    \A c \in Callers :
        (frame[c].op = "Shards.multicast" /\ frame[c].pc \in InBroadcast) =>
            /\ CoversKeys(Range(frame[c].hosts), frame[c].keys)
            /\ \A S \in SUBSET DOMAIN pool :
                CoversKeys(S, frame[c].keys) =>
                    Cardinality(S) >= Cardinality(Range(frame[c].hosts))
            /\ frame[c].pc = "done" =>
                \A S \in SUBSET DOMAIN pool :
                    CoversKeys(S, frame[c].keys) =>
                        Cardinality(S) >= Cardinality(frame[c].sent)

\* A multicast chose one host where a host for each key could be two hosts.
C11_Witness ==
    \E c \in Callers :
        /\ frame[c].op = "Shards.multicast" /\ frame[c].pc = "send"
        /\ Cardinality(Range(frame[c].hosts)) = 1
        /\ \E S \in HostSets(frame[c].keys) : Cardinality(S) = 2

\* C12: multicast([k]) contacts exactly one host, an owner of k; it fails
\* without a request only when k has no host.
C12_SingleKeyOneHost ==
    \A c \in Callers :
        (frame[c].op = "Shards.multicast" /\ Len(frame[c].keys) = 1) =>
            LET owners == shards[frame[c].keys[1]] IN
            /\ frame[c].sent \subseteq owners
            /\ Cardinality(frame[c].sent) <= 1
            /\ (frame[c].pc = "raised" /\ frame[c].err = "ValueError") => owners = {}
            /\ frame[c].pc \in InBroadcast =>
                /\ Cardinality(Range(frame[c].hosts)) = 1
                /\ Range(frame[c].hosts) \subseteq owners
            /\ frame[c].pc = "done" =>
                /\ Cardinality(frame[c].sent) = 1
                /\ Len(frame[c].result) = 1
                /\ frame[c].result[1].from \in owners

\* A multicast of one key with two owners returned, beside a host that does
\* not own the key.
C12_Witness ==
    \E c \in Callers :
        /\ frame[c].op = "Shards.multicast" /\ frame[c].pc = "done"
        /\ Len(frame[c].keys) = 1
        /\ \E k \in DOMAIN shards : shards[k] # {} /\ shards[k] \cap shards[frame[c].keys[1]] = {}

\* C13: multicast([k1, k2]) over two keys with a host in common contacts
\* exactly one host, an owner of both keys, never two hosts.
C13_SharedHostChosen ==
    \A c \in Callers :
        (/\ frame[c].op = "Shards.multicast" /\ Len(frame[c].keys) = 2
         /\ shards[frame[c].keys[1]] \cap shards[frame[c].keys[2]] # {}) =>
            LET both == shards[frame[c].keys[1]] \cap shards[frame[c].keys[2]] IN
            /\ frame[c].err # "ValueError"
            /\ frame[c].sent \subseteq both
            /\ Cardinality(frame[c].sent) <= 1
            /\ frame[c].pc \in InBroadcast =>
                /\ Cardinality(Range(frame[c].hosts)) = 1
                /\ Range(frame[c].hosts) \subseteq both
            /\ frame[c].pc = "done" =>
                /\ Cardinality(frame[c].sent) = 1
                /\ Len(frame[c].result) = 1

\* A multicast of two different keys returned from the one host they share,
\* the other owner not contacted.
C13_Witness ==
    \E c \in Callers :
        /\ frame[c].op = "Shards.multicast" /\ frame[c].pc = "done"
        /\ Len(frame[c].keys) = 2 /\ frame[c].keys[1] # frame[c].keys[2]
        /\ Cardinality(shards[frame[c].keys[1]] \cup shards[frame[c].keys[2]]) = 2
        /\ Cardinality(frame[c].sent) = 1

\* The owner clusters of the keys, and whether they are pairwise equal or
\* disjoint, none empty.
Clusters(keys) == {shards[keys[i]] : i \in DOMAIN keys}
Clustered(keys) ==
    /\ keys # <<>>
    /\ {} \notin Clusters(keys)
    /\ \A A, B \in Clusters(keys) : A = B \/ A \cap B = {}

\* C14: multicast over keys whose owner clusters are pairwise disjoint (or the
\* same) contacts as many hosts as there are clusters, one host of each; three
\* keys with pairwise disjoint owners give three hosts, one owner of each key.
C14_OneHostPerCluster ==
    \A c \in Callers :
        (frame[c].op = "Shards.multicast" /\ Clustered(frame[c].keys)) =>
            LET cl == Clusters(frame[c].keys) IN
            /\ frame[c].err # "ValueError"
            /\ frame[c].pc \in InBroadcast =>
                /\ Cardinality(Range(frame[c].hosts)) = Cardinality(cl)
                /\ \A A \in cl : Cardinality(A \cap Range(frame[c].hosts)) = 1
            /\ frame[c].pc = "done" =>
                /\ frame[c].sent = Range(frame[c].hosts)
                /\ Len(frame[c].result) = Cardinality(cl)

\* A multicast of three keys with pairwise disjoint owners returned from three
\* hosts.
C14_Witness ==
    \E c \in Callers :
        /\ frame[c].op = "Shards.multicast" /\ frame[c].pc = "done"
        /\ Len(frame[c].keys) = 3
        /\ \A i, j \in 1..3 :
            i # j => shards[frame[c].keys[i]] \cap shards[frame[c].keys[j]] = {}
        /\ Cardinality(frame[c].sent) = 3
        /\ Len(frame[c].result) = 3

\* C15: a multicast with a key that has no host fails with ValueError (the
\* configuration error) before any dispatch: no request is sent, no resource is
\* checked out or created, and the idle lists are as they were.
C15_EmptyKeyFails ==
    \A c \in Callers :
        (/\ frame[c].op = "Shards.multicast"
         /\ \E i \in DOMAIN frame[c].keys : shards[frame[c].keys[i]] = {}) =>
            /\ frame[c].pc = "raised"
            /\ frame[c].err = "ValueError"
            /\ frame[c].sent = {}
            /\ Held(c) = {}
            /\ \A h \in DOMAIN pool : Len(pool[h]) = frame[c].before[h]
            /\ \A id \in ConnIds : conn[id].st \in {"free", "idle"}

\* A multicast of a key with a host that has an idle resource and of a key
\* without hosts has failed.
C15_Witness ==
    \E c \in Callers :
        /\ frame[c].op = "Shards.multicast" /\ frame[c].pc = "raised"
        /\ Len(frame[c].keys) = 2
        /\ shards[frame[c].keys[2]] = {}
        /\ \E h \in shards[frame[c].keys[1]] : Len(pool[h]) >= 1

\* C16: a host deleted from Resources while a request of a unicast or a
\* broadcast to it is in flight does not disturb that call, which takes the
\* host's response without an error; and a call over all hosts that began
\* after the deletion sends nothing to the deleted host.
C16_RemovalHarmless ==
    /\ [][\A c \in Callers :
            /\ (/\ frame[c].pc = "read" /\ frame'[c] # frame[c]
                 /\ conn[frame[c].resource].st = "ready"
                 /\ conn[frame[c].resource].status # REQUEST_TIMEOUT) =>
                    /\ frame'[c].pc = "done"
                    /\ frame'[c].result =
                        <<[from |-> frame[c].host,
                           status |-> conn[frame[c].resource].status]>>
            /\ (/\ frame[c].pc = "recv" /\ frame'[c] # frame[c]
                 /\ conn[frame[c].resources[Head(frame[c].todo)]].st = "ready"
                 /\ conn[frame[c].resources[Head(frame[c].todo)]].status
                        # REQUEST_TIMEOUT) =>
                    /\ frame'[c].pc \in {"recv", "loop"}
                    /\ Head(frame[c].todo) \in DOMAIN frame'[c].responses]_vars
    /\ [](\A c \in Callers :
            (frame[c].op \in {"Resources.unicast", "Resources.broadcast"}
                /\ frame[c].args = <<>>) =>
                    frame[c].sent \subseteq DOMAIN frame[c].before)

\* The dispatch target set of a unicast or broadcast is empty: a call over all
\* hosts of a Resources without hosts, or a call for a key without hosts.
EmptyTarget(c) ==
    \/ /\ frame[c].op \in {"Resources.unicast", "Resources.broadcast"}
       /\ frame[c].args = <<>> /\ DOMAIN frame[c].before = {}
    \/ /\ frame[c].op \in {"Shards.unicast", "Shards.broadcast"}
       /\ shards[frame[c].key] = {}

\* C17: a unicast or broadcast with an empty dispatch target set sends no
\* request and ends by raising the configuration error, ValueError.
C17_EmptyTargetFails ==
    \A c \in Callers :
        EmptyTarget(c) =>
            /\ frame[c].sent = {}
            /\ frame[c].pc \notin {"request", "read", "send", "recv"}
            /\ frame[c].pc \in {"done", "raised"} =>
                frame[c].pc = "raised" /\ frame[c].err = "ValueError"

\* C18: a unicast with a reachable host among its candidates returns the
\* response of a reachable host; an unreachable host makes it raise the
\* transport's error only when every candidate is unreachable.  (A failure of
\* the transport to a reachable host is not held against the claim.)
C18_UnicastFailsOver ==
    \A c \in Callers :
        (/\ frame[c].op \in Unicasts
         /\ \E h \in Range(frame[c].hosts) : h \notin down) =>
            /\ ~(/\ frame[c].pc = "raised" /\ frame[c].failed
                 /\ frame[c].host \in down)
            /\ frame[c].pc = "done" => frame[c].result[1].from \notin down

\* C19: unicast retries nothing but the timeout.  A transport failure is
\* raised at once: the call holds nothing, returns nothing and sends no other
\* request; and a response with another status than the timeout, a non-2xx one
\* too, goes to the caller as it is, with no request after it.
C19_OnlyTimeoutRetried ==
    /\ [](\A c \in Callers :
            (frame[c].op \in Unicasts /\ frame[c].failed) =>
                /\ frame[c].pc = "raised" /\ frame[c].err = "socket.error"
                /\ Held(c) = {} /\ frame[c].result = <<>>)
    /\ [][\A c \in Callers :
            /\ (frame[c].op \in Unicasts /\ frame[c].pc \in {"raised", "done"}) =>
                /\ frame'[c] \in {frame[c], IdleFrame}
                /\ \A id \in ConnIds : conn'[id].st = "sent" => conn[id].st = "sent"
            /\ (/\ frame[c].pc = "read" /\ frame'[c] # frame[c]
                 /\ conn[frame[c].resource].st = "fail") =>
                    /\ frame'[c].pc = "raised" /\ frame'[c].failed
                    /\ frame'[c].sent = frame[c].sent
            /\ (/\ frame[c].pc = "read" /\ frame'[c] # frame[c]
                 /\ conn[frame[c].resource].st = "ready"
                 /\ conn[frame[c].resource].status # REQUEST_TIMEOUT) =>
                    /\ frame'[c].pc = "done"
                    /\ frame'[c].result[1].status = conn[frame[c].resource].status
                    /\ frame'[c].sent = frame[c].sent]_vars

\* A unicast over two hosts has raised the transport failure of the first host
\* it tried, the other host not contacted.
C19_Witness ==
    \E c \in Callers :
        /\ frame[c].op = "Resources.unicast" /\ frame[c].pc = "raised"
        /\ frame[c].failed /\ ~frame[c].timeouts
        /\ Cardinality(Range(frame[c].hosts)) = 2
        /\ Cardinality(frame[c].sent) = 1

\* C20: a unicast whose candidates all answer with the timeout status does
\* not go on retrying: after as many timeouts as it has candidates it has
\* raised the connectivity error, and it ends its retrying with no other error.
C20_TimeoutsExhaustHosts ==
    \A c \in Callers :
        (frame[c].op \in Unicasts /\ frame[c].timeouts /\ ~frame[c].failed) =>
            /\ frame[c].depth >= Cardinality(Range(frame[c].hosts)) =>
                frame[c].pc = "raised"
            /\ frame[c].pc = "raised" => frame[c].err = "socket.error"

\* C21: with Resources constructed with a limit, no idle list ever holds more
\* than limit resources: a resource pushed onto a list at the limit is dropped.
C21_IdleAtMostLimit ==
    \A h \in DOMAIN pool : Len(pool[h]) <= limit

\* C22: for every host, the idle resources cached, together with those held,
\* are at most the most resources of the host that were held at one time so
\* far; while no two were ever held at once, no list caches more than one.
C22_IdleWithinPeak ==
    \A h \in DOMAIN peak :
        /\ Len(pool[h]) + HeldCount(h) <= peak[h]
        /\ Len(pool[h]) <= peak[h]
        /\ peak[h] <= 1 => Len(pool[h]) <= 1

\* Two resources of a host are cached after two were held at once.
C22_Witness ==
    \E h \in DOMAIN peak : Len(pool[h]) = 2 /\ peak[h] = 2

\* C23: a resource on which the transport failed, in sending or in reading the
\* response, is never put into an idle list: the lists hold only resources at
\* rest, and the step in which a read fails leaves the resource in no list.
C23_FailedNeverPooled ==
    /\ [](\A id \in Pooled : conn[id].st = "idle")
    /\ [][\A c \in Callers :
            /\ (/\ frame[c].pc = "read" /\ frame'[c] # frame[c]
                 /\ conn[frame[c].resource].st = "fail") =>
                    /\ frame'[c].pc = "raised"
                    /\ \A h \in DOMAIN pool' :
                        frame[c].resource \notin Range(pool'[h])
            /\ (/\ frame[c].pc = "recv" /\ frame'[c] # frame[c]
                 /\ conn[frame[c].resources[Head(frame[c].todo)]].st = "fail") =>
                    /\ frame'[c].pc = "raised"
                    /\ \A h \in DOMAIN pool' :
                        frame[c].resources[Head(frame[c].todo)]
                            \notin Range(pool'[h])]_vars

\* A call has failed on a host whose idle resource it had taken, and the list
\* of the host is empty.
C23_Witness ==
    \E c \in Callers :
        /\ frame[c].pc = "raised" /\ frame[c].failed
        /\ \E h \in frame[c].sent :
            /\ h \in DOMAIN pool /\ h \in DOMAIN frame[c].before
            /\ frame[c].before[h] >= 1 /\ Len(pool[h]) = 0

C25_MulticastAvoidsDown ==
    \A c \in Callers :
        (/\ frame[c].op = "Shards.multicast"
         /\ down # {} /\ down \subseteq frame[c].lost
         /\ \E S \in Smallest(HostSets(frame[c].keys)) : S \cap down = {}) =>
            /\ Range(frame[c].hosts) \cap down = {}
            /\ frame[c].sent \cap down = {}

\* The sum of the idle counts b of the hosts of a cover S.
RECURSIVE SumIdle(_, _)
SumIdle(S, b) ==
    IF S = {} THEN 0
    ELSE LET h == CHOOSE x \in S : TRUE IN b[h] + SumIdle(S \ {h}, b)

\* C26: when some cover of minimum size has a host with an idle connection,
\* multicast chooses a cover of minimum size whose hosts' idle counts have a
\* positive sum.
C26_WeightIsSum ==
    \A c \in Callers :
        (frame[c].op = "Shards.multicast" /\ frame[c].hosts # <<>>) =>
            LET mins == Smallest(HostSets(frame[c].keys))
                pos == {S \in mins : SumIdle(S, frame[c].before) > 0}
            IN  pos # {} => Range(frame[c].hosts) \in pos

\* C27: a read that ends by the socket's own timeout is retried like a
\* response with the status REQUEST_TIMEOUT: no call raises socket.timeout.
C27_LocalTimeoutRetried ==
    \A c \in Callers : frame[c].pc = "raised" => frame[c].err # "socket.timeout"

\* C28: a step that changes an idle list does no network I/O: it connects no
\* resource, sends no request and reads no response (it can only make the
\* object of a new resource); and a step that does network I/O changes no
\* idle list.
C28_ListStepsDoNoIO ==
    [][pool' # pool =>
        \A id \in ConnIds :
            \/ conn'[id] = conn[id]
            \/ conn[id].st = "free" /\ conn'[id] = [st |-> "idle", status |-> 0]]_vars

\* A caller waits for the response of a host while the idle list of that host
\* holds a resource another caller has put back.
C28_Witness ==
    \E c \in Callers :
        /\ frame[c].pc = "waiting" /\ conn[frame[c].resource].st = "sent"
        /\ pool[frame[c].host] # <<>>

\* C29: a unicast call that returns, made after a call with the same hosts
\* argument had returned, to hosts whose servers are in the same state, returns
\* a response of the same status, whichever host each call chose and whatever
\* the idle lists held.
C29_SameResults ==
    \A c \in Callers :
        (/\ frame[c].op = "Resources.unicast" /\ frame[c].pc = "done"
         /\ frame[c].prev # <<>>
         /\ frame[c].args = frame[c].prev.args
         /\ \A h \in Range(frame[c].hosts), g \in Range(frame[c].hosts) :
                serves[h] = serves[g]) =>
            frame[c].result[1].status = frame[c].prev.result.status

\* The second of two calls over both hosts returned from the other host than
\* the first, after a timeout, with a resource idle when it began.
C29_Witness ==
    \E c \in Callers :
        /\ frame[c].op = "Resources.unicast" /\ frame[c].pc = "done"
        /\ frame[c].prev # <<>>
        /\ frame[c].args = <<>> /\ frame[c].prev.args = <<>>
        /\ serves[1] = serves[2]
        /\ frame[c].result[1].from # frame[c].prev.result.from
        /\ frame[c].timeouts
        /\ \E h \in DOMAIN frame[c].before : frame[c].before[h] > 0

\* C30: the call of unicast made after a timeout chooses among the hosts the
\* first attempt chose among, the caller's hosts or every host of Resources:
\* the host that timed out is still one of them, and the choice can fall on
\* it again when it has an idle resource or no host has one.
C30_RetrySameCandidates ==
    [][\A c \in Callers :
        (frame[c].pc = "read" /\ frame'[c].pc = "choose") =>
            /\ Range(frame'[c].hosts) = Range(frame[c].hosts)
            /\ Range(frame'[c].hosts) =
                    (IF frame[c].args # <<>> THEN Range(frame[c].args) ELSE DOMAIN pool)
            /\ frame[c].host \in Range(frame'[c].hosts)
            /\ (Candidates(frame'[c].hosts) = {} \/ pool[frame[c].host] # <<>>) =>
                    frame[c].host \in Choices(frame'[c].hosts)]_vars

\* After a timeout the call chose, of two hosts, the one that had timed out.
C30_Witness ==
    \E c \in Callers :
        /\ frame[c].op = "Resources.unicast" /\ frame[c].pc = "request"
        /\ frame[c].depth > 0 /\ frame[c].timeouts
        /\ Cardinality(Range(frame[c].hosts)) = 2
        /\ frame[c].sent = {frame[c].host}

\* C31: every host answering with another status after finitely many
\* timeouts, every call of unicast or broadcast that began returns, unless the
\* transport fails in it.
C31_CallsReturn ==
    \A c \in Solo :
        (frame[c].pc \notin {"idle", "done"})
            ~> (frame[c].pc = "done" \/ frame[c].failed)

\* The same for broadcast alone.
BroadcastReturns ==
    \A c \in Solo :
        (frame[c].op = "Resources.broadcast" /\ frame[c].pc \notin {"idle", "done"})
            ~> (/\ frame[c].op = "Resources.broadcast"
                /\ frame[c].pc = "done" \/ frame[c].failed)

\* C32: the construction of Shards leaves Resources with an empty idle list for
\* every host of every key and for no other host, and Resources has exactly
\* these hosts from then on.
C32_ResourcesSpanShards ==
    [][/\ (shards = <<>> /\ shards' # <<>>) =>
            pool' = [h \in UNION {shards'[k] : k \in DOMAIN shards'} |-> <<>>]
       /\ shards' # <<>> =>
            DOMAIN pool' = UNION {shards'[k] : k \in DOMAIN shards'}]_vars

\* Shards was just constructed with two keys of different hosts, one host of
\* both keys.
C32_Witness ==
    /\ shards # <<>>
    /\ \A c \in Callers : frame[c].pc = "idle"
    /\ \A id \in ConnIds : conn[id].st = "free"
    /\ \E k \in DOMAIN shards, j \in DOMAIN shards :
        shards[k] # shards[j] /\ shards[k] \cap shards[j] # {}
    /\ \A h \in DOMAIN pool : pool[h] = <<>>
    /\ Cardinality(DOMAIN pool) = 2

\* C33: no step of a call of Shards.unicast, Shards.broadcast or
\* Shards.multicast, returning, retrying or failing, changes the shard map.
C33_ShardMapKept ==
    [][shards' = shards]_vars

\* A call of Shards failed in the transport after a timeout, the map having a
\* key with hosts.
C33_Witness ==
    \E c \in Callers :
        /\ frame[c].op \in {"Shards.unicast", "Shards.broadcast", "Shards.multicast"}
        /\ frame[c].pc = "raised" /\ frame[c].failed /\ frame[c].timeouts
        /\ \E k \in DOMAIN shards : shards[k] # {}

\* C34: the step of unicast or broadcast that reads a response with the
\* timeout status puts nothing into any idle list and drops the resource that
\* timed out; in broadcast the request goes out again on another resource.
\* Between the attempts of a unicast over one host the host has as many idle
\* resources less than when the call began as idle ones have timed out.
C34_TimedOutDropped ==
    /\ [][\A c \in Callers :
            LET f == frame[c]
                id == IF f.pc = "read" THEN f.resource
                      ELSE f.resources[Head(f.todo)]
            IN (/\ f.pc \in {"read", "recv"}
                /\ conn[id].st = "ready" /\ conn[id].status = REQUEST_TIMEOUT
                /\ frame'[c] # f) =>
                    /\ id \notin UNION {Range(pool'[h]) : h \in DOMAIN pool'}
                    /\ conn'[id].st = "free"
                    /\ \A h \in DOMAIN pool : Len(pool'[h]) <= Len(pool[h])
                    /\ (f.pc = "recv" /\ frame'[c].pc # "raised") =>
                            /\ frame'[c].resources[id[1]] # id
                            /\ conn'[frame'[c].resources[id[1]]].st = "sent"]_vars
    /\ [](\A c \in Callers :
            (/\ frame[c].op = "Resources.unicast" /\ frame[c].pc = "choose"
             /\ frame[c].depth > 0 /\ Len(frame[c].args) = 1) =>
                LET h == frame[c].args[1]
                    b == frame[c].before[h]
                IN Len(pool[h]) = IF b > frame[c].depth THEN b - frame[c].depth ELSE 0)

\* A resource taken from the idle list of its host timed out in a unicast:
\* before the next attempt the list is shorter than when the call began.
C34_Witness ==
    \E c \in Callers :
        /\ frame[c].op = "Resources.unicast" /\ frame[c].pc = "choose"
        /\ frame[c].timeouts /\ frame[c].depth > 0
        /\ \E h \in frame[c].sent : Len(pool[h]) < frame[c].before[h]

\* C35: every resource in an idle list has no request outstanding and no
\* response unread, and a request goes out only on a resource that has none
\* outstanding: the response read from a resource is the one to the request
\* last sent on it.
C35_IdleHaveNoRequest ==
    /\ [](\A h \in DOMAIN pool : \A i \in DOMAIN pool[h] : conn[pool[h][i]].st = "idle")
    /\ [][\A id \in ConnIds :
            (conn'[id].st = "sent" /\ conn[id].st # "sent") =>
                conn[id].st \in {"free", "idle"}]_vars

\* The response to a request sent on a resource that was idle has arrived, the
\* idle list of another host holding a resource.
C35_Witness ==
    \E c \in Callers :
        /\ frame[c].pc = "read" /\ conn[frame[c].resource].st = "ready"
        /\ frame[c].before[frame[c].host] > 0
        /\ pool[frame[c].host] = <<>>
        /\ \E h \in DOMAIN pool : pool[h] # <<>>

\* C36: the hosts a multicast sends to are hosts of the keys asked for, as
\* many as the smallest set of hosts that covers the keys has when the call
\* returns, and none for the empty list of keys.
C36_ContactsMinimumCover ==
    \A c \in Callers :
        frame[c].op = "Shards.multicast" =>
            LET keys == frame[c].keys
                union == UNION {shards[keys[i]] : i \in DOMAIN keys}
            IN  /\ frame[c].sent \subseteq union
                /\ keys = <<>> => frame[c].sent = {}
                /\ (HostSets(keys) # {} /\ frame[c].hosts # <<>>) =>
                        /\ Cardinality(Range(frame[c].hosts)) = MinSize(HostSets(keys))
                        /\ frame[c].sent \subseteq Range(frame[c].hosts)
                /\ frame[c].pc = "done" =>
                        Cardinality(frame[c].sent) = MinSize(HostSets(keys))

\* A multicast over two keys returned after sending to one host, the keys
\* having two hosts together.
C36_Witness ==
    \E c \in Callers :
        /\ frame[c].op = "Shards.multicast" /\ frame[c].pc = "done"
        /\ Len(frame[c].keys) = 2
        /\ Cardinality(frame[c].sent) = 1
        /\ Cardinality(UNION {shards[frame[c].keys[i]] : i \in DOMAIN frame[c].keys}) = 2

\* A multicast over the empty list of keys ended, by ValueError.
EmptyKeysRaise ==
    \E c \in Callers :
        /\ frame[c].op = "Shards.multicast" /\ frame[c].keys = <<>>
        /\ frame[c].pc = "raised" /\ frame[c].err = "ValueError"

\* C37: a broadcast drops no resource it checked out, but one that timed out
\* or when the call fails: every resource it holds is read and put back.
C37_CheckedOutReturned ==
    [][\A c \in Callers :
        frame[c].op = "Resources.broadcast" =>
            \A id \in Held(c) :
                conn'[id].st = "free" =>
                    \/ frame'[c].pc = "raised"
                    \/ conn[id].st = "ready" /\ conn[id].status = REQUEST_TIMEOUT]_vars

\* C38: no step of a unicast or broadcast given hosts changes the idle list of
\* a host not among them, or the hosts Resources has, whether the call returns,
\* retries or fails.
C38_OtherHostsUntouched ==
    [][\A c \in Callers :
        (frame'[c].op \in {"Resources.unicast", "Resources.broadcast"}
            /\ frame'[c].args # <<>>) =>
            /\ DOMAIN pool' = DOMAIN pool
            /\ \A h \in DOMAIN pool \ Range(frame'[c].args) : pool'[h] = pool[h]]_vars

\* A call given one host ended after a timeout, the other host having an
\* idle resource.
C38_Witness ==
    \E c \in Callers :
        /\ frame[c].op \in {"Resources.unicast", "Resources.broadcast"}
        /\ Len(frame[c].args) = 1 /\ frame[c].timeouts
        /\ frame[c].pc \in {"done", "raised"}
        /\ \E h \in DOMAIN pool \ Range(frame[c].args) : pool[h] # <<>>

\* C39: on a fresh Resources used for nothing but unicast over all hosts, with
\* no timeout and no failure, every call after one that returned sends to the
\* host that one was answered by, and a call never chooses a host with no idle
\* resource when another host has one.
C39_StaysWithFirstHost ==
    \A c \in Callers :
        (frame[c].op = "Resources.unicast" /\ frame[c].host # 0) =>
            /\ frame[c].prev # <<>> =>
                    /\ frame[c].host = frame[c].prev.result.from
                    /\ frame[c].sent \subseteq {frame[c].prev.result.from}
            /\ (\E g \in DOMAIN frame[c].before : frame[c].before[g] > 0) =>
                    frame[c].before[frame[c].host] > 0

\* A later call returned from the host of the call before it, the other host
\* having no idle resource.
C39_Witness ==
    \E c \in Callers :
        /\ frame[c].op = "Resources.unicast" /\ frame[c].pc = "done"
        /\ frame[c].prev # <<>>
        /\ frame[c].result[1].from = frame[c].prev.result.from
        /\ \E g \in DOMAIN pool : g # frame[c].host /\ pool[g] = <<>>

\* C40: after a broadcast that a transport failure on one host ended, every
\* other host of the call has at least as many idle resources as when the
\* call began.
C40_HealthyHostsKeepIdle ==
    \A c \in Callers :
        (frame[c].op \in Broadcasts /\ frame[c].pc = "raised" /\ frame[c].failed) =>
            \A h \in Range(frame[c].hosts) \ {frame[c].host} :
                Len(pool[h]) >= frame[c].before[h]

============================================================================
